---- MODULE Spec2Model ----
(***************************************************************************)
(* A model of the pipeline builder of src/index.ts: PipelineBuilder        *)
(* (addPass, build) and the runner closure build() returns, with the       *)
(* promise continuations of the runner as separate steps of the job queue. *)
(***************************************************************************)
EXTENDS Integers, Sequences, FiniteSets, TLC

(* ---------------------------------------------------------------- bounds *)
\* Spec: the passes registered on the builder, the runners built from it and
\* the invocations of those runners.
MaxPasses == 2
MaxRunners == 2
MaxInv == 2
\* SpecRun: the passes of the one pipeline that is run.
MaxPipeline == 3
\* SpecLive: the passes of the one pipeline that is run to its end.
MaxLive == 2
\* SpecBuilder: the pipeline() calls and the builder references held.
MaxBuilders == 2
MaxHandles == 4
\* SpecBuilder: the runners built.
MaxBuilt == 1

(* ------------------------------------------------- plain objects (maps)  *)
Keys == {"a", "b", "then"}
EmptyMap == [k \in {} |-> 0]

\* An assignment of the result in place of a spread over the environment.
SpreadReplaces(e, r) == r

\* A spread in which the left operand wins on a shared key.
SpreadLeftWins(e, r) ==
    [k \in (DOMAIN e) \cup (DOMAIN r) |-> IF k \in DOMAIN e THEN e[k] ELSE r[k]]

\* { ...e, ...r }: object spread, the right operand wins on a shared key.
Spread(e, r) ==
    [k \in (DOMAIN e) \cup (DOMAIN r) |-> IF k \in DOMAIN r THEN r[k] ELSE e[k]]

(* ------------------------------------------------------------ JS values  *)
\* A value a pass can return or a caller can supply: its typeof, its own
\* fields, whether it has a callable `then`, and (for a thenable) how it
\* settles and to what.
Undefined ==
    [type |-> "undefined", fields |-> EmptyMap, then |-> FALSE,
     settle |-> "none", rtype |-> "undefined", rfields |-> EmptyMap]
Obj(m) ==
    [type |-> "object", fields |-> m, then |-> FALSE,
     settle |-> "none", rtype |-> "undefined", rfields |-> EmptyMap]
Fulfilling(v) ==
    [type |-> "object", fields |-> EmptyMap, then |-> TRUE,
     settle |-> "fulfil", rtype |-> v.type, rfields |-> v.fields]
Rejecting ==
    [type |-> "object", fields |-> EmptyMap, then |-> TRUE,
     settle |-> "reject", rtype |-> "undefined", rfields |-> EmptyMap]
\* A mapping with fields m that also has a callable `then`, one that is not
\* a promise's: it calls neither of the callbacks it is handed.
WithThen(m) ==
    [type |-> "object", fields |-> m, then |-> TRUE,
     settle |-> "never", rtype |-> "undefined", rfields |-> EmptyMap]

Truthy(v) == v.type \in {"object", "function"}

\* A merge that writes the result as a field of its own when it is falsy.
OrEmptyAsField(v) == IF Truthy(v) THEN v.fields ELSE [k \in {"out"} |-> 0]

\* (v || {}) as the operand of a spread.
OrEmpty(v) == IF Truthy(v) THEN v.fields ELSE EmptyMap

\* A check that takes no value for a thenable.
isThenableNever(v) == FALSE

\* A check that takes every object for a thenable.
isThenableAny(v) == Truthy(v) /\ v.type \in {"object", "function"}

\* A check that takes only promises for thenables, not any value with a
\* callable `then`.
isThenablePromiseOnly(v) ==
    /\ Truthy(v)
    /\ v.type \in {"object", "function"}
    /\ v.then
    /\ v.fields = EmptyMap

isThenable(v) ==
    /\ Truthy(v)
    /\ v.type \in {"object", "function"}
    /\ v.then

\* A continuation that drops the value it is handed.
ResolvedLost(v) == Undefined

\* The value a settled thenable was fulfilled with.
Resolved(v) ==
    IF v.rtype = "undefined" THEN Undefined ELSE Obj(v.rfields)

(* ---------------------------------------------------------------- passes *)
\* What the caller hands to addPass: its form (a function, an object with a
\* callable run, or neither), the body of the function or of run, and
\* whether that body returns its result directly or as a promise.
Forms == {"fn", "obj", "bad"}
Bodies == {"setA", "copy", "void", "throw"}
Rets == {"imm", "def"}

\* Further bodies: an empty mapping, a mapping whose field `then` is not
\* callable, a mapping whose field `then` is.
EdgeBodies == {"empty", "thenNum", "thenField"}

BadPass == [form |-> "bad", body |-> "void", ret |-> "imm"]
PassValues ==
    {BadPass} \cup [form : {"fn"}, body : Bodies, ret : Rets]
              \cup [form : {"obj"}, body : {"copy"}, ret : Rets]

\* The passes whose results are at the edge of the merge and of the
\* thenable check, with two ordinary ones to fill the environment.
ResultValues ==
    [form : {"fn"}, body : {"setA", "void"} \cup EdgeBodies, ret : {"imm"}]
        \cup [form : {"fn"}, body : {"copy", "void", "empty"}, ret : {"def"}]

NoError == [kind |-> "none", at |-> 0]
UserError(at) == [kind |-> "UserError", at |-> at]
TypeError(at) == [kind |-> "TypeError", at |-> at]

Returns(v) == [thrown |-> FALSE, val |-> v]
Throws == [thrown |-> TRUE, val |-> Undefined]

\* The bodies of the user functions, as in the tests: a constant field, a
\* field computed from the environment, nothing, or a throw.
BodyValue(body, env) ==
    CASE body = "setA" -> Obj([k \in {"a"} |-> 1])
      [] body = "copy" ->
           Obj([k \in {"b"} |-> IF "a" \in DOMAIN env THEN env["a"] ELSE 0])
      [] body = "empty" -> Obj(EmptyMap)
      [] body = "thenNum" -> Obj([k \in {"then"} |-> 1])
      [] body = "thenField" -> WithThen([k \in {"a"} |-> 1])
      [] OTHER -> Undefined

\* f(env) or obj.run(env): a plain function returns or throws; an async
\* function returns a promise that fulfils with the value or rejects.
UserCall(p, env) ==
    IF p.ret = "imm"
    THEN IF p.body = "throw" THEN Throws ELSE Returns(BodyValue(p.body, env))
    ELSE IF p.body = "throw" THEN Returns(Rejecting)
         ELSE Returns(Fulfilling(BodyValue(p.body, env)))

IsFunction(p) == p.form = "fn"
HasRun(p) == p.form = "obj"

\* A wrapper that calls whatever it was given, without the last check.
wrapperUnchecked(p, env) == UserCall(p, env)

\* A wrapper that calls run without the environment.
wrapperRunNoEnv(p, env) ==
    IF IsFunction(p) THEN UserCall(p, env)
    ELSE IF HasRun(p) THEN UserCall(p, EmptyMap)
    ELSE Throws

\* The wrapper addPass stores.
wrapper(p, env) ==
    IF IsFunction(p) THEN UserCall(p, env)
    ELSE IF HasRun(p) THEN UserCall(p, env)
    ELSE Throws

\* The error a throwing wrapper raises at index at.
Raised(p, at) ==
    IF IsFunction(p) \/ HasRun(p) THEN UserError(at) ELSE TypeError(at)

(* ----------------------------------------------------------------- state *)
VARIABLES
    arrays,     \* the arrays of wrappers; arrays[1] is the builder's this.passes
    runners,    \* runners[r]: the array the r-th runner's closure captured
    invs,       \* the invocations of runners, in call order
    heap,       \* heap[c]: the closure variable env of an invocation
    active,     \* the invocation on the call stack, or 0
    handles     \* the builder references the caller holds, in the order it
                \* got them: the builder (by its array) and the pipeline()
                \* call the reference was chained from

vars == <<arrays, runners, invs, heap, active, handles>>

Builder == 1
\* What the first pipeline() call returned.
FirstHandle == [builder |-> Builder, root |-> 1]
Inputs == {Undefined, Obj(EmptyMap), Obj([k \in {"a"} |-> 0])}

Init ==
    /\ arrays = << <<>> >>
    /\ runners = <<>>
    /\ invs = <<>>
    /\ heap = [c \in 1..MaxInv |-> EmptyMap]
    /\ active = 0
    /\ handles = <<FirstHandle>>

\* The passes the runner of invocation n captured, and their number.
PassesOf(n) == arrays[runners[invs[n].runner]]
NumPasses(n) == Len(PassesOf(n))
\* Pass i of invocation n, with the source's 0-based index.
PassAt(n, i) == PassesOf(n)[i + 1]

Event(e, i) == [e |-> e, i |-> i]

(* ---------------------------------------------------------------- addPass *)
\* this.passes.push(wrapper); return this
AddPass(fn) ==
    /\ active = 0
    /\ Len(arrays[Builder]) < MaxPasses
    /\ arrays' = [arrays EXCEPT ![Builder] = Append(@, fn)]
    /\ UNCHANGED <<runners, invs, heap, handles>>
    /\ UNCHANGED active

(* ------------------------------------------------------------------ build *)
\* A build that keeps the builder's own array.
sliceAlias(a, fresh) == a

\* this.passes.slice(): the reference of a new array, `fresh`, that holds a
\* copy of the elements of the array `a`.
slice(a, fresh) == fresh

Build ==
    /\ active = 0
    /\ Len(runners) < MaxRunners
    /\ arrays' = Append(arrays, arrays[Builder])
    /\ runners' = Append(runners, slice(Builder, Len(arrays) + 1))
    /\ UNCHANGED <<invs, heap, handles>>
    /\ UNCHANGED active

(* ------------------------------------------------------ builder references *)
\* The builder a reference denotes, the array of that builder, and the
\* pipeline() calls made so far.
BuilderOf(h) == handles[h].builder
SeqOf(h) == arrays[BuilderOf(h)]
Roots == {handles[h].root : h \in 1..Len(handles)}

\* The passes registered in SpecBuilder: a function and an object with run.
BuilderPasses ==
    {[form |-> "fn", body |-> "setA", ret |-> "imm"],
     [form |-> "obj", body |-> "copy", ret |-> "def"]}

\* pipeline(): return new PipelineBuilder(), with a passes array of its own.
Pipeline ==
    /\ Cardinality(Roots) < MaxBuilders
    /\ Len(handles) < MaxHandles
    /\ arrays' = Append(arrays, <<>>)
    /\ handles' = Append(handles, [builder |-> Len(arrays) + 1,
                                   root |-> Len(handles) + 1])
    /\ UNCHANGED <<runners, invs, heap, active>>

\* An addPass that leaves its builder as it was and returns a new builder
\* with the pass added.
AddPassViaCopy(h, fn) ==
    /\ h \in 1..Len(handles)
    /\ Len(handles) < MaxHandles
    /\ arrays' = Append(arrays, Append(SeqOf(h), fn))
    /\ handles' = Append(handles, [builder |-> Len(arrays) + 1,
                                   root |-> handles[h].root])
    /\ UNCHANGED <<runners, invs, heap, active>>

\* h.addPass(fn): this.passes.push(wrapper); return this. The caller keeps
\* the reference it gets back.
AddPassVia(h, fn) ==
    /\ h \in 1..Len(handles)
    /\ Len(handles) < MaxHandles
    /\ arrays' = [arrays EXCEPT ![BuilderOf(h)] = Append(@, fn)]
    /\ handles' = Append(handles, [builder |-> BuilderOf(h),
                                   root |-> handles[h].root])
    /\ UNCHANGED <<runners, invs, heap, active>>

\* h.build(): the runner captures this.passes.slice().
BuildVia(h) ==
    /\ h \in 1..Len(handles)
    /\ Len(runners) < MaxBuilt
    /\ arrays' = Append(arrays, SeqOf(h))
    /\ runners' = Append(runners, slice(BuilderOf(h), Len(arrays) + 1))
    /\ UNCHANGED <<invs, heap, active, handles>>

NextBuilder ==
    \/ Pipeline
    \/ \E h \in 1..MaxHandles, fn \in BuilderPasses : AddPassVia(h, fn)
    \/ \E h \in 1..MaxHandles : BuildVia(h)

SpecBuilder == Init /\ [][NextBuilder]_vars

(* ----------------------------------------------------------------- runner *)
\* An env declared in build(), outside the runner: one cell for all calls.
EnvCellShared(n) == 1

\* `let env` is a variable of the runner call: one cell for each call.
EnvCell(n) == n

\* An initial environment that keeps a missing input as a field.
InitialEnvAsField(input) ==
    IF Truthy(input) THEN Spread(EmptyMap, input.fields)
    ELSE [k \in {"input"} |-> 0]

\* let env = { ...(input || {}) }
InitialEnv(input) == Spread(EmptyMap, OrEmpty(input))

\* An initial environment that is the caller's object when there is one:
\* let env = input || {}
EnvObjectAlias(input) == IF Truthy(input) THEN "input" ELSE "copy"

\* The object env refers to after let env = { ... }: a new object, not the
\* caller's. Every merge makes another new object ("merged").
EnvObject(input) == "copy"

\* (input?) => { let env = ...; for (let i = 0; ...
Invoke(r, input) ==
    /\ active = 0
    /\ Len(invs) < MaxInv
    /\ r \in 1..Len(runners)
    /\ LET n == Len(invs) + 1 IN
       /\ invs' = Append(invs,
             [runner |-> r, input |-> input, cell |-> EnvCell(n), i |-> 0,
              pc |-> "sync", ret |-> "none", switchAt |-> -1,
              out |-> Undefined, settled |-> FALSE, carry |-> EmptyMap,
              seen |-> <<>>, log |-> <<>>, result |-> EmptyMap,
              err |-> NoError, envObj |-> EnvObject(input)])
       /\ heap' = [heap EXCEPT ![EnvCell(n)] = InitialEnv(input)]
       /\ active' = n
    /\ UNCHANGED <<arrays, runners, handles>>

\* A loop that merges what a thenable fulfils with in place and goes on to
\* the next pass before the call has returned.
SyncStepInline ==
    /\ active # 0
    /\ LET n == active
           v == invs[n]
           c == v.cell
       IN
       /\ v.pc = "sync"
       /\ v.i < NumPasses(n)
       /\ LET p == PassAt(n, v.i)
              r == wrapper(p, heap[c])
              called == [v EXCEPT !.seen = Append(@, heap[c]),
                                  !.log = Append(@, Event("call", v.i))]
          IN
          IF r.thrown
          THEN /\ invs' = [invs EXCEPT ![n] =
                     [called EXCEPT !.pc = "threw", !.ret = "throw",
                                    !.err = Raised(p, v.i),
                                    !.log = Append(@, Event("return", v.i))]]
               /\ active' = 0
               /\ UNCHANGED heap
          ELSE IF isThenable(r.val) /\ r.val.settle # "fulfil"
          THEN /\ invs' = [invs EXCEPT ![n] =
                     [called EXCEPT !.pc = "await", !.ret = "handle",
                                    !.switchAt = v.i, !.out = r.val,
                                    !.settled = FALSE,
                                    !.log = Append(@, Event("return", v.i))]]
               /\ active' = 0
               /\ UNCHANGED heap
          ELSE LET out == IF isThenable(r.val) THEN Resolved(r.val)
                          ELSE r.val
               IN
               /\ heap' = [heap EXCEPT ![c] = Spread(@, OrEmpty(out))]
               /\ invs' = [invs EXCEPT ![n] =
                     [called EXCEPT !.i = v.i + 1, !.envObj = "merged",
                                    !.log = Append(@, Event("merge", v.i))]]
               /\ UNCHANGED active
    /\ UNCHANGED <<arrays, runners, handles>>

\* One iteration of the for loop: const out = pass(env); then the throw
\* leaves the call, a thenable returns the promise, anything else is merged.
SyncStep ==
    /\ active # 0
    /\ LET n == active
           v == invs[n]
           c == v.cell
       IN
       /\ v.pc = "sync"
       /\ v.i < NumPasses(n)
       /\ LET p == PassAt(n, v.i)
              r == wrapper(p, heap[c])
              called == [v EXCEPT !.seen = Append(@, heap[c]),
                                  !.log = Append(@, Event("call", v.i))]
          IN
          IF r.thrown
          THEN /\ invs' = [invs EXCEPT ![n] =
                     [called EXCEPT !.pc = "threw", !.ret = "throw",
                                    !.err = Raised(p, v.i),
                                    !.log = Append(@, Event("return", v.i))]]
               /\ active' = 0
               /\ UNCHANGED heap
          ELSE IF isThenable(r.val)
          THEN /\ invs' = [invs EXCEPT ![n] =
                     [called EXCEPT !.pc = "await", !.ret = "handle",
                                    !.switchAt = v.i, !.out = r.val,
                                    !.settled = FALSE,
                                    !.log = Append(@, Event("return", v.i))]]
               /\ active' = 0
               /\ UNCHANGED heap
          ELSE /\ heap' = [heap EXCEPT ![c] = Spread(@, OrEmpty(r.val))]
               /\ invs' = [invs EXCEPT ![n] =
                     [called EXCEPT !.i = v.i + 1, !.envObj = "merged",
                                    !.log = Append(@, Event("merge", v.i))]]
               /\ UNCHANGED active
    /\ UNCHANGED <<arrays, runners, handles>>

\* The loop ran out of passes: return env.
SyncReturn ==
    /\ active # 0
    /\ LET n == active
           v == invs[n]
       IN
       /\ v.pc = "sync"
       /\ v.i = NumPasses(n)
       /\ invs' = [invs EXCEPT ![n] =
             [v EXCEPT !.pc = "returned", !.ret = "env",
                       !.result = heap[v.cell],
                       !.log = Append(@, Event("return", v.i))]]
       /\ active' = 0
    /\ UNCHANGED <<arrays, runners, heap, handles>>

\* The thenable a pass returned settles (an event outside the runner).
Settle(n) ==
    /\ active = 0
    /\ n \in 1..Len(invs)
    /\ invs[n].pc \in {"await", "chainAwait"}
    /\ ~invs[n].settled
    /\ invs[n].out.settle \in {"fulfil", "reject"}
    /\ invs' = [invs EXCEPT ![n].settled = TRUE,
                            ![n].log = Append(@, Event("settle", invs[n].i))]
    /\ UNCHANGED <<arrays, runners, heap, active, handles>>

\* A first continuation that also handles the rejection, as a void result.
ResumeSwallowsRejection(n) ==
    /\ active = 0
    /\ n \in 1..Len(invs)
    /\ invs[n].pc = "await"
    /\ invs[n].settled
    /\ LET v == invs[n]
           r == IF v.out.settle = "reject" THEN Undefined ELSE Resolved(v.out)
           merged == Spread(heap[v.cell], OrEmpty(r))
       IN
       /\ heap' = [heap EXCEPT ![v.cell] = merged]
       /\ invs' = [invs EXCEPT ![n] =
             [v EXCEPT !.pc = "chain", !.i = v.i + 1, !.carry = merged,
                       !.envObj = "merged",
                       !.log = Append(@, Event("merge", v.i))]]
    /\ UNCHANGED <<arrays, runners, active, handles>>

\* Promise.resolve(out).then((resolvedOut) => { env = {...env, ...}; ... }):
\* the continuation of the first thenable, or the rejection of the handle.
Resume(n) ==
    /\ active = 0
    /\ n \in 1..Len(invs)
    /\ LET v == invs[n]
           c == v.cell
       IN
       /\ v.pc = "await"
       /\ v.settled
       /\ IF v.out.settle = "reject"
          THEN /\ invs' = [invs EXCEPT ![n] =
                     [v EXCEPT !.pc = "rejected", !.err = UserError(v.i)]]
               /\ UNCHANGED heap
          ELSE LET merged == Spread(heap[c], OrEmpty(Resolved(v.out))) IN
               /\ heap' = [heap EXCEPT ![c] = merged]
               /\ invs' = [invs EXCEPT ![n] =
                     [v EXCEPT !.pc = "chain", !.i = v.i + 1,
                               !.carry = merged, !.envObj = "merged",
                               !.log = Append(@, Event("merge", v.i))]]
    /\ UNCHANGED <<arrays, runners, active, handles>>

\* A chain step that drops the failure of a pass and goes on to the next.
ChainCallSkipsFailure(n) ==
    /\ active = 0
    /\ n \in 1..Len(invs)
    /\ LET v == invs[n] IN
       /\ v.pc = "chain"
       /\ v.i < NumPasses(n)
       /\ LET p == PassAt(n, v.i)
              r == wrapper(p, v.carry)
              called == [v EXCEPT !.seen = Append(@, v.carry),
                                  !.log = Append(@, Event("call", v.i))]
          IN
          invs' = [invs EXCEPT ![n] =
              IF r.thrown
              THEN [called EXCEPT !.pc = "chain", !.i = v.i + 1]
              ELSE [called EXCEPT !.pc = "chainAwait", !.out = r.val,
                                  !.settled = ~isThenable(r.val)]]
    /\ UNCHANGED <<arrays, runners, heap, active, handles>>

\* p.then((_env) => { const maybe = next(_env); return Promise.resolve(maybe)...
ChainCall(n) ==
    /\ active = 0
    /\ n \in 1..Len(invs)
    /\ LET v == invs[n] IN
       /\ v.pc = "chain"
       /\ v.i < NumPasses(n)
       /\ LET p == PassAt(n, v.i)
              r == wrapper(p, v.carry)
              called == [v EXCEPT !.seen = Append(@, v.carry),
                                  !.log = Append(@, Event("call", v.i))]
          IN
          invs' = [invs EXCEPT ![n] =
              IF r.thrown
              THEN [called EXCEPT !.pc = "rejected", !.err = Raised(p, v.i)]
              ELSE [called EXCEPT !.pc = "chainAwait", !.out = r.val,
                                  !.settled = ~isThenable(r.val)]]
    /\ UNCHANGED <<arrays, runners, heap, active, handles>>

\* A chain step that merges without waiting for the thenable to settle.
ChainMergeNoWait(n) ==
    /\ active = 0
    /\ n \in 1..Len(invs)
    /\ invs[n].pc = "chainAwait"
    /\ LET v == invs[n]
           r == IF isThenable(v.out) THEN Resolved(v.out) ELSE v.out
       IN
       invs' = [invs EXCEPT ![n] =
           [v EXCEPT !.pc = "chain", !.i = v.i + 1,
                     !.carry = Spread(v.carry, OrEmpty(r)),
                     !.envObj = "merged",
                     !.log = Append(@, Event("merge", v.i))]]
    /\ UNCHANGED <<arrays, runners, heap, active, handles>>

\* ....then((r) => ({ ..._env, ...(r || {}) }))
ChainMerge(n) ==
    /\ active = 0
    /\ n \in 1..Len(invs)
    /\ LET v == invs[n] IN
       /\ v.pc = "chainAwait"
       /\ v.settled
       /\ invs' = [invs EXCEPT ![n] =
             IF isThenable(v.out) /\ v.out.settle = "reject"
             THEN [v EXCEPT !.pc = "rejected", !.err = UserError(v.i)]
             ELSE LET r == IF isThenable(v.out) THEN Resolved(v.out) ELSE v.out
                  IN [v EXCEPT !.pc = "chain", !.i = v.i + 1,
                               !.carry = Spread(v.carry, OrEmpty(r)),
                               !.envObj = "merged",
                               !.log = Append(@, Event("merge", v.i))]]
    /\ UNCHANGED <<arrays, runners, heap, active, handles>>

\* A last link that resolves the handle only after a pass ran in the chain.
ChainFinishAfterPass(n) ==
    /\ active = 0
    /\ n \in 1..Len(invs)
    /\ LET v == invs[n] IN
       /\ v.pc = "chain"
       /\ v.i = NumPasses(n)
       /\ v.i > v.switchAt + 1
       /\ invs' = [invs EXCEPT ![n] =
             [v EXCEPT !.pc = "fulfilled", !.result = v.carry]]
    /\ UNCHANGED <<arrays, runners, heap, active, handles>>

\* .then((finalEnv) => finalEnv as Env): the handle resolves.
ChainFinish(n) ==
    /\ active = 0
    /\ n \in 1..Len(invs)
    /\ LET v == invs[n] IN
       /\ v.pc = "chain"
       /\ v.i = NumPasses(n)
       /\ invs' = [invs EXCEPT ![n] =
             [v EXCEPT !.pc = "fulfilled", !.result = v.carry]]
    /\ UNCHANGED <<arrays, runners, heap, active, handles>>

Next ==
    \/ \E fn \in PassValues : AddPass(fn)
    \/ Build
    \/ \E r \in 1..MaxRunners, input \in Inputs : Invoke(r, input)
    \/ SyncStep
    \/ SyncReturn
    \/ \E n \in 1..MaxInv : Settle(n)
    \/ \E n \in 1..MaxInv : Resume(n)
    \/ \E n \in 1..MaxInv : ChainCall(n)
    \/ \E n \in 1..MaxInv : ChainMerge(n)
    \/ \E n \in 1..MaxInv : ChainFinish(n)

Spec == Init /\ [][Next]_vars

(* ------------------------------------------------- one call of one runner *)
\* The pipelines of at most n passes.
Pipelines(n) == UNION {[1..k -> PassValues] : k \in 0..n}

\* pipeline().addPass(..) ... .build(): a builder with its passes registered
\* and one runner built from it.
InitRun ==
    /\ \E ps \in Pipelines(MaxPipeline) :
          /\ arrays = <<ps, ps>>
          /\ runners = <<2>>
    /\ invs = <<>>
    /\ heap = [c \in 1..MaxInv |-> EmptyMap]
    /\ active = 0
    /\ handles = <<FirstHandle>>

\* The first call of that runner.
InvokeFirst(input) ==
    /\ invs = <<>>
    /\ Invoke(1, input)

NextRun ==
    \/ \E input \in Inputs : InvokeFirst(input)
    \/ SyncStep
    \/ SyncReturn
    \/ \E n \in 1..MaxInv : Settle(n)
    \/ \E n \in 1..MaxInv : Resume(n)
    \/ \E n \in 1..MaxInv : ChainCall(n)
    \/ \E n \in 1..MaxInv : ChainMerge(n)
    \/ \E n \in 1..MaxInv : ChainFinish(n)

SpecRun == InitRun /\ [][NextRun]_vars

(* ------------------------------- one call, results at the edge of the merge *)
ResultPipelines(n) == UNION {[1..k -> ResultValues] : k \in 0..n}

InitResults ==
    /\ \E ps \in ResultPipelines(MaxPipeline) :
          /\ arrays = <<ps, ps>>
          /\ runners = <<2>>
    /\ invs = <<>>
    /\ heap = [c \in 1..MaxInv |-> EmptyMap]
    /\ active = 0
    /\ handles = <<FirstHandle>>

SpecResults == InitResults /\ [][NextRun]_vars

(* ------------------------------------------------ one call, run to its end *)
\* The passes of SpecRun and a pass whose result has a callable `then` that
\* never calls back.
LiveValues == PassValues \cup {[form |-> "fn", body |-> "thenField", ret |-> "imm"]}
LivePipelines(n) == UNION {[1..k -> LiveValues] : k \in 0..n}

InitLive ==
    /\ \E ps \in LivePipelines(MaxLive) :
          /\ arrays = <<ps, ps>>
          /\ runners = <<2>>
    /\ invs = <<>>
    /\ heap = [c \in 1..MaxInv |-> EmptyMap]
    /\ active = 0
    /\ handles = <<FirstHandle>>

\* The call on the stack runs to its return; the job queue runs every
\* continuation that is ready; a thenable that can settle does.
Fairness ==
    /\ WF_vars(SyncStep)
    /\ WF_vars(SyncReturn)
    /\ \A n \in 1..MaxInv :
          /\ WF_vars(Settle(n))
          /\ WF_vars(Resume(n))
          /\ WF_vars(ChainCall(n))
          /\ WF_vars(ChainMerge(n))
          /\ WF_vars(ChainFinish(n))

SpecLive == InitLive /\ [][NextRun]_vars /\ Fairness

(* ------------------------------------------------------- the run as a whole *)
\* The runner as a function of its passes and input: the outcome of the for
\* loop and of the promise chain when every thenable settles.
RECURSIVE RunFrom(_, _, _, _)
RunFrom(ps, i, env, deferred) ==
    IF i = Len(ps)
    THEN [ret |-> IF deferred THEN "handle" ELSE "env",
          pc |-> IF deferred THEN "fulfilled" ELSE "returned",
          result |-> env, err |-> NoError]
    ELSE LET p == ps[i + 1]
             r == wrapper(p, env)
         IN
         IF r.thrown
         THEN [ret |-> IF deferred THEN "handle" ELSE "throw",
               pc |-> IF deferred THEN "rejected" ELSE "threw",
               result |-> EmptyMap, err |-> Raised(p, i)]
         ELSE IF isThenable(r.val)
         THEN IF r.val.settle = "reject"
              THEN [ret |-> "handle", pc |-> "rejected",
                    result |-> EmptyMap, err |-> UserError(i)]
              ELSE IF r.val.settle = "never"
              THEN [ret |-> "handle", pc |-> "pending",
                    result |-> EmptyMap, err |-> NoError]
              ELSE RunFrom(ps, i + 1,
                           Spread(env, OrEmpty(Resolved(r.val))), TRUE)
         ELSE RunFrom(ps, i + 1, Spread(env, OrEmpty(r.val)), deferred)

Run(ps, input) == RunFrom(ps, 0, InitialEnv(input), FALSE)

(* ------------------------------------------------------------ vocabulary *)
Invocations == 1..Len(invs)
Completed(n) == invs[n].pc \in {"returned", "fulfilled"}
Failed(n) == invs[n].pc \in {"threw", "rejected"}
DeferredMode(n) ==
    invs[n].pc \in {"await", "chain", "chainAwait", "fulfilled", "rejected"}

\* The number of passes invocation n has invoked so far.
Invoked(n) == Len(invs[n].seen)

\* The pass hands back a deferred value when invoked.
ReturnsDeferred(p) == p.form \in {"fn", "obj"} /\ p.ret = "def"
\* The pass raises when invoked.
RaisesWhenInvoked(p) ==
    p.form = "bad" \/ (p.body = "throw" /\ p.ret = "imm")
\* The pass hands back a deferred value that rejects.
ReturnsRejecting(p) == ReturnsDeferred(p) /\ p.body = "throw"

\* The mapping a caller's argument stands for, and the overlay of one
\* mapping by another, as the specification words them.
InputMapping(input) == IF input.type = "object" THEN input.fields ELSE EmptyMap
Overlaid(e, r) ==
    [k \in (DOMAIN e) \cup (DOMAIN r) |-> IF k \in DOMAIN r THEN r[k] ELSE e[k]]
ResultMapping(p, e) == BodyValue(p.body, e).fields

\* The input overlaid by the result mappings of the first n passes of ps.
RECURSIVE OverlayTo(_, _, _)
OverlayTo(input, ps, n) ==
    IF n = 0 THEN InputMapping(input)
    ELSE LET e == OverlayTo(input, ps, n - 1)
         IN Overlaid(e, ResultMapping(ps[n], e))

\* The calls and merges of a log, without its other events.
CallsAndMerges(log) == SelectSeq(log, LAMBDA ev : ev.e \in {"call", "merge"})
\* call 0, merge 0, ..., call n-1, merge n-1
Alternating(n) ==
    [j \in 1..(2 * n) |->
        Event(IF j % 2 = 1 THEN "call" ELSE "merge", (j - 1) \div 2)]

(* ---------------------------------------------------------------- claims *)
\* C1 (merge order): every pass of an invocation sees the input overlaid by
\* the results of the passes before it, in registration order, and the
\* environment of a completed invocation is the input overlaid by the
\* results of all its passes, the later value winning on a shared key.
MergeOrder ==
    \A n \in Invocations :
        LET v == invs[n]
            ps == PassesOf(n)
        IN
        /\ \A j \in 1..Len(v.seen) : v.seen[j] = OverlayTo(v.input, ps, j - 1)
        /\ Completed(n) => v.result = OverlayTo(v.input, ps, Len(ps))

\* A completed run of two passes on an input whose key a the first pass
\* overwrites and the second pass reads.
MergeOrderWitness ==
    \E n \in Invocations :
        /\ Completed(n)
        /\ NumPasses(n) = 2
        /\ PassAt(n, 0).body = "setA"
        /\ PassAt(n, 1).body = "copy"
        /\ invs[n].input = Obj([k \in {"a"} |-> 0])
        /\ DOMAIN invs[n].result = {"a", "b"}
        /\ invs[n].result["a"] = 1
        /\ invs[n].result["b"] = 1

\* The passes of ps, each returning its result immediately.
Immediate(ps) == [j \in 1..Len(ps) |-> [ps[j] EXCEPT !.ret = "imm"]]

\* C2 (mode equivalence): the environment of a completed invocation, with
\* any of its passes deferred, is the one the fully synchronous run of the
\* same passes returning the same results immediately produces.
ModeEquivalence ==
    \A n \in Invocations :
        Completed(n) =>
            LET sync == Run(Immediate(PassesOf(n)), invs[n].input)
            IN /\ sync.ret = "env"
               /\ invs[n].result = sync.result

\* A run that switched at index 1, between two immediate passes, and
\* resolved to what the three passes merged.
ModeEquivalenceWitness ==
    \E n \in Invocations :
        /\ invs[n].pc = "fulfilled"
        /\ NumPasses(n) = 3
        /\ PassAt(n, 0).ret = "imm" /\ PassAt(n, 0).body = "copy"
        /\ PassAt(n, 1).ret = "def" /\ PassAt(n, 1).body = "setA"
        /\ PassAt(n, 2).ret = "imm" /\ PassAt(n, 2).body = "copy"
        /\ invs[n].input = Obj([k \in {"a"} |-> 0])
        /\ invs[n].result = [k \in {"a", "b"} |-> 1]

\* The invoked passes of invocation n that returned a deferred value.
DeferredInvoked(n) ==
    {j \in 0..(Invoked(n) - 1) : ReturnsDeferred(PassAt(n, j))}
Least(S) == CHOOSE x \in S : \A y \in S : x <= y

\* C3 (one-way mode switch): once a pass of an invocation has returned a
\* deferred value, the runner call has returned a handle, the invocation is
\* in deferred mode whatever the later passes return, and a handle that
\* resolved holds the environment merged through all the passes in order.
OneWaySwitch ==
    \A n \in Invocations :
        DeferredInvoked(n) # {} =>
            /\ invs[n].ret = "handle"
            /\ DeferredMode(n)
            /\ invs[n].switchAt = Least(DeferredInvoked(n))
            /\ invs[n].pc = "fulfilled" =>
                /\ CallsAndMerges(invs[n].log) = Alternating(NumPasses(n))
                /\ invs[n].result =
                       OverlayTo(invs[n].input, PassesOf(n), NumPasses(n))

\* A handle that resolved after a switch at index 0, an immediate pass and
\* a deferred one.
OneWaySwitchWitness ==
    \E n \in Invocations :
        /\ invs[n].pc = "fulfilled"
        /\ invs[n].switchAt = 0
        /\ NumPasses(n) = 3
        /\ PassAt(n, 1).ret = "imm" /\ PassAt(n, 1).body = "copy"
        /\ PassAt(n, 2).ret = "def" /\ PassAt(n, 2).body = "setA"

\* C4 (pure synchronous path): while no invoked pass has returned a deferred
\* value the invocation is on the caller's stack or over, never a handle;
\* what it returns is the environment, after every pass was invoked and
\* merged; and it does return it unless a pass raised.
PureSyncPath ==
    \A n \in Invocations :
        DeferredInvoked(n) = {} =>
            /\ invs[n].ret \in {"none", "env", "throw"}
            /\ invs[n].pc \in {"sync", "returned", "threw"}
            /\ invs[n].pc = "sync" <=> active = n
            /\ invs[n].ret = "none" <=> invs[n].pc = "sync"
            /\ invs[n].ret = "throw" =>
                   RaisesWhenInvoked(PassAt(n, Invoked(n) - 1))
            /\ invs[n].ret = "env" =>
                /\ invs[n].pc = "returned"
                /\ invs[n].log =
                       Alternating(NumPasses(n))
                           \o <<Event("return", NumPasses(n))>>
                /\ invs[n].result =
                       OverlayTo(invs[n].input, PassesOf(n), NumPasses(n))

\* A runner call over three immediate passes that returned the environment.
PureSyncPathWitness ==
    \E n \in Invocations :
        /\ invs[n].ret = "env"
        /\ NumPasses(n) = 3
        /\ PassAt(n, 0).body = "setA"
        /\ PassAt(n, 1).body = "void"
        /\ PassAt(n, 2).body = "copy"
        /\ invs[n].input = Undefined
        /\ invs[n].result = [k \in {"a", "b"} |-> 1]

\* C5 (strict sequential execution): the calls and merges of an invocation
\* alternate, call 0, merge 0, call 1, merge 1, ..., in both modes, and the
\* result of a pass that returned a deferred value is merged only after
\* that value has settled.
StrictSequential ==
    \A n \in Invocations :
        LET log == invs[n].log
            cm == CallsAndMerges(log)
        IN
        /\ Len(cm) <= 2 * NumPasses(n)
        /\ \A j \in 1..Len(cm) : cm[j] = Alternating(NumPasses(n))[j]
        /\ \A q \in 1..Len(log) :
            (log[q].e = "merge" /\ ReturnsDeferred(PassAt(n, log[q].i))) =>
                \E s \in 1..(q - 1) :
                    /\ log[s] = Event("settle", log[q].i)
                    /\ \E c \in 1..(s - 1) : log[c] = Event("call", log[q].i)

\* An immediate pass, a deferred pass and another deferred pass, each
\* invoked after the one before it was merged, across the switch.
StrictSequentialWitness ==
    \E n \in Invocations :
        /\ invs[n].pc = "fulfilled"
        /\ invs[n].log =
            << Event("call", 0), Event("merge", 0),
               Event("call", 1), Event("return", 1), Event("settle", 1),
               Event("merge", 1),
               Event("call", 2), Event("settle", 2), Event("merge", 2) >>

\* C6 (failure propagation channel): a pass that raises before any pass
\* returned a deferred value makes the runner call raise that failure; a
\* failure after the switch rejects the handle with it and never raises
\* from the call; no pass is invoked after a pass that failed.
FailurePropagation ==
    \A n \in Invocations :
        Invoked(n) > 0 =>
            LET v == invs[n]
                k == Invoked(n) - 1
                p == PassAt(n, k)
            IN
            /\ \A j \in 0..(k - 1) :
                   /\ ~RaisesWhenInvoked(PassAt(n, j))
                   /\ ~ReturnsRejecting(PassAt(n, j))
            /\ (RaisesWhenInvoked(p) /\ DeferredInvoked(n) = {}) =>
                   /\ v.pc = "threw" /\ v.ret = "throw"
                   /\ v.err = Raised(p, k)
            /\ (RaisesWhenInvoked(p) /\ DeferredInvoked(n) # {}) =>
                   /\ v.pc = "rejected" /\ v.ret = "handle"
                   /\ v.err = Raised(p, k)
            /\ ReturnsRejecting(p) =>
                   /\ v.ret = "handle"
                   /\ v.pc \in {"await", "chainAwait", "rejected"}
                   /\ v.pc = "rejected" => v.err = UserError(k)
            /\ Failed(n) =>
                   /\ RaisesWhenInvoked(p) \/ ReturnsRejecting(p)
                   /\ v.err.at = k
                   /\ CallsAndMerges(v.log) =
                          Alternating(k) \o <<Event("call", k)>>

\* A handle rejected by the deferred result of pass 1, after the switch at
\* pass 0, with pass 2 never invoked.
FailurePropagationWitness ==
    \E n \in Invocations :
        /\ invs[n].pc = "rejected"
        /\ invs[n].ret = "handle"
        /\ invs[n].switchAt = 0
        /\ invs[n].err = UserError(1)
        /\ ReturnsRejecting(PassAt(n, 1))
        /\ NumPasses(n) = 3
        /\ Invoked(n) = 2

\* C7 (lazy invalid-pass detection): a value that is neither callable nor has
\* a callable run is registered and built like any other; its TypeError is
\* raised when an invocation reaches its index, after the earlier passes
\* were invoked and merged (thrown from the call before the switch, a
\* rejection after it), and not before.
LazyInvalidPass ==
    \A n \in Invocations :
        LET v == invs[n] IN
        /\ v.err.kind = "TypeError" =>
               /\ v.err.at < NumPasses(n)
               /\ PassAt(n, v.err.at).form = "bad"
        /\ \A j \in 0..(NumPasses(n) - 1) :
            PassAt(n, j).form = "bad" =>
                IF Invoked(n) <= j
                THEN v.err # TypeError(j)
                ELSE /\ Invoked(n) = j + 1
                     /\ v.err = TypeError(j)
                     /\ CallsAndMerges(v.log) =
                            Alternating(j) \o <<Event("call", j)>>
                     /\ IF DeferredInvoked(n) = {}
                        THEN v.pc = "threw" /\ v.ret = "throw"
                        ELSE v.pc = "rejected" /\ v.ret = "handle"

\* An invalid value registered after a deferred pass, built, and reached by
\* an invocation whose handle it rejected.
LazyInvalidPassWitness ==
    \E n \in Invocations :
        /\ NumPasses(n) = 2
        /\ PassAt(n, 0).ret = "def" /\ PassAt(n, 0).body = "setA"
        /\ PassAt(n, 1) = BadPass
        /\ invs[n].pc = "rejected"
        /\ invs[n].err = TypeError(1)

\* C8 (finalize snapshot): build() gives the new runner the passes registered
\* at that moment, no step (addPass, build, a run) changes the passes of a
\* runner that exists, and a completed invocation has invoked the passes of
\* its runner, one call each.
FinalizeSnapshot ==
    [][ /\ \A r \in 1..Len(runners) :
              /\ r \in 1..Len(runners')
              /\ arrays'[runners'[r]] = arrays[runners[r]]
        /\ Len(runners') # Len(runners) =>
              /\ Len(runners') = Len(runners) + 1
              /\ arrays'[runners'[Len(runners')]] = arrays[Builder]
        /\ \A n \in 1..Len(invs') :
              invs'[n].pc \in {"returned", "fulfilled"} =>
                  Len(invs'[n].seen) = Len(arrays'[runners'[invs'[n].runner]])
      ]_vars

\* Two runners built at different points, the later one run first: each ran
\* its own passes, and the builder has more passes than the first runner.
FinalizeSnapshotWitness ==
    /\ Len(invs) = 2
    /\ invs[1].runner = 2 /\ invs[2].runner = 1
    /\ Completed(1) /\ Completed(2)
    /\ Len(arrays[runners[1]]) = 1 /\ Invoked(2) = 1
    /\ Len(arrays[runners[2]]) = 2 /\ Invoked(1) = 2
    /\ Len(arrays[Builder]) = 2

\* What an invocation has come to: how the call returned, how it ended.
Outcome(n) ==
    [ret |-> invs[n].ret, pc |-> invs[n].pc,
     result |-> invs[n].result, err |-> invs[n].err]

\* The number of merges invocation n has made.
Merged(n) == Len(SelectSeq(invs[n].log, LAMBDA ev : ev.e = "merge"))

\* C9 (invocation isolation): invocations have environments of their own;
\* however their continuations interleave, the environment of each is, at
\* every step, its own input overlaid by its own merges, and each ends as it
\* would if it ran alone.
InvocationIsolation ==
    \A n \in Invocations :
        /\ \A m \in Invocations : m # n => invs[m].cell # invs[n].cell
        /\ invs[n].pc \in {"sync", "await"} =>
               heap[invs[n].cell] =
                   OverlayTo(invs[n].input, PassesOf(n), Merged(n))
        /\ invs[n].pc \in {"chain", "chainAwait"} =>
               invs[n].carry =
                   OverlayTo(invs[n].input, PassesOf(n), Merged(n))
        /\ (Completed(n) \/ Failed(n)) =>
               Outcome(n) = Run(PassesOf(n), invs[n].input)

\* Two invocations of one runner on different inputs, both in deferred mode
\* and both past their first merge, the second started after the first.
InvocationIsolationWitness ==
    /\ Len(invs) = 2
    /\ invs[1].runner = invs[2].runner
    /\ invs[1].input # invs[2].input
    /\ invs[1].pc = "chainAwait" /\ invs[1].i = 1
    /\ invs[2].pc = "chain" /\ invs[2].i = 1
    /\ PassAt(1, 0).body = "copy"
    /\ invs[1].carry # invs[2].carry

\* The passes of ps, each object with a run replaced by the function that
\* returns what its run returns.
Callable(ps) ==
    [j \in 1..Len(ps) |->
        IF ps[j].form = "obj" THEN [ps[j] EXCEPT !.form = "fn"] ELSE ps[j]]

\* C10 (capability-object equivalence): an invocation over passes given as
\* objects with run ends in the mode, the environment and the failure of the
\* run of the same passes given as functions.
CapabilityEquivalence ==
    \A n \in Invocations :
        (Completed(n) \/ Failed(n)) =>
            Outcome(n) = Run(Callable(PassesOf(n)), invs[n].input)

\* A run over an object, a function and an object whose run reads what the
\* function set, resolved through the object's deferred result.
CapabilityEquivalenceWitness ==
    \E n \in Invocations :
        /\ invs[n].pc = "fulfilled"
        /\ NumPasses(n) = 3
        /\ PassAt(n, 0) = [form |-> "obj", body |-> "copy", ret |-> "imm"]
        /\ PassAt(n, 1) = [form |-> "fn", body |-> "setA", ret |-> "imm"]
        /\ PassAt(n, 2) = [form |-> "obj", body |-> "copy", ret |-> "def"]
        /\ invs[n].input = Obj([k \in {"a"} |-> 0])
        /\ invs[n].result = [k \in {"a", "b"} |-> 1]

\* The environment invocation n holds: the closure variable env up to the
\* first continuation, the environment the chain carries after it, the
\* environment handed to the caller at the end.
CurrentEnv(n) ==
    IF invs[n].pc \in {"chain", "chainAwait"} THEN invs[n].carry
    ELSE IF Completed(n) THEN invs[n].result
    ELSE heap[invs[n].cell]

\* The pass gives nothing or an empty mapping, at once or as the resolution
\* of a deferred value.
GivesNothing(p) == p.form = "fn" /\ p.body \in {"void", "empty"}

\* C11 (void and empty results are merge no-ops): the step that merges the
\* result of a pass that gave nothing or an empty mapping, at once or as
\* the resolution of a deferred value, in the loop or in the chain, leaves
\* the environment with the same fields and the same values.
VoidMergeNoOp ==
    [][ \A n \in Invocations :
            LET log == invs'[n].log IN
            (/\ Merged(n)' = Merged(n) + 1
             /\ log[Len(log)].e = "merge"
             /\ GivesNothing(PassAt(n, log[Len(log)].i))) =>
                CurrentEnv(n)' = CurrentEnv(n)
      ]_vars

\* A run that merged an empty mapping in the loop and the void resolution
\* of a deferred value after the switch, and ended with the environment
\* the first pass left.
VoidMergeNoOpWitness ==
    \E n \in Invocations :
        /\ invs[n].pc = "fulfilled"
        /\ NumPasses(n) = 3
        /\ PassAt(n, 0).body = "setA"
        /\ PassAt(n, 1).body = "empty" /\ PassAt(n, 1).ret = "imm"
        /\ PassAt(n, 2).body = "void" /\ PassAt(n, 2).ret = "def"
        /\ Merged(n) = 3
        /\ invs[n].result = [k \in {"a"} |-> 1]

\* C12 (zero-argument invocation): an invocation without an argument starts
\* its first pass on the empty environment, returns as (environment, handle
\* or failure) and ends as (same environment, same failure at the same
\* pass) the invocation of the same passes with an empty mapping does.
ZeroArgument ==
    \A n \in Invocations :
        invs[n].input \in {Undefined, Obj(EmptyMap)} =>
            LET empty == Run(PassesOf(n), Obj(EmptyMap)) IN
            /\ Invoked(n) >= 1 => invs[n].seen[1] = EmptyMap
            /\ invs[n].ret # "none" => invs[n].ret = empty.ret
            /\ (Completed(n) \/ Failed(n)) => Outcome(n) = empty

\* A call without an argument that switched to deferred mode and resolved
\* to what the passes merged into the empty environment.
ZeroArgumentWitness ==
    \E n \in Invocations :
        /\ invs[n].input = Undefined
        /\ invs[n].pc = "fulfilled"
        /\ NumPasses(n) = 2
        /\ PassAt(n, 0).body = "copy" /\ PassAt(n, 0).ret = "def"
        /\ PassAt(n, 1).body = "setA"
        /\ invs[n].result = ("a" :> 1) @@ ("b" :> 0)

\* The calls of a log, without its other events.
Calls(log) == SelectSeq(log, LAMBDA ev : ev.e = "call")

\* C13 (at-most-once execution, abort on failure): in every step of an
\* invocation its passes have been invoked once each at most and in index
\* order, pass j only after each of the passes 0..j-1 was invoked and had
\* its result merged; the pass that failed is the last one invoked, and an
\* invocation that has failed takes no further step.
AtMostOnce ==
    [][ \A n \in Invocations :
            LET log == invs'[n].log
                calls == Calls(log)
            IN
            /\ Len(calls) <= NumPasses(n)
            /\ \A q \in 1..Len(calls) : calls[q].i = q - 1
            /\ \A q \in 1..Len(log) :
                   log[q].e = "call" =>
                       \A i \in 0..(log[q].i - 1) :
                           \E c, m \in 1..(q - 1) :
                               /\ c < m
                               /\ log[c] = Event("call", i)
                               /\ log[m] = Event("merge", i)
            /\ invs'[n].pc \in {"threw", "rejected"} =>
                   /\ Len(calls) >= 1
                   /\ invs'[n].err.at = Len(calls) - 1
                   /\ \A q \in 1..Len(log) :
                          log[q].e = "merge" => log[q].i < Len(calls) - 1
            /\ Failed(n) => invs'[n] = invs[n]
      ]_vars

\* A handle rejected by pass 1, which raised after the switch at pass 0:
\* passes 0 and 1 were invoked once each, pass 2 never.
AtMostOnceWitness ==
    \E n \in Invocations :
        /\ invs[n].pc = "rejected"
        /\ NumPasses(n) = 3
        /\ RaisesWhenInvoked(PassAt(n, 1))
        /\ invs[n].log =
            << Event("call", 0), Event("return", 0), Event("settle", 0),
               Event("merge", 0), Event("call", 1) >>

\* The position of the first event ev of a log, or 0.
IndexOf(log, ev) ==
    IF \E q \in 1..Len(log) : log[q] = ev
    THEN Least({q \in 1..Len(log) : log[q] = ev})
    ELSE 0

\* C14 (suspension point): a runner call runs on the caller's stack, with no
\* step of the builder or of another invocation in between, from its entry
\* to its return; where pass k is the first to return a deferred value the
\* call has by then invoked 0..k and merged 0..k-1, and its return is the
\* next event; every later call, merge and settlement comes after that
\* return, each as a step of its own.
SuspensionPoint ==
    [][ /\ active # 0 =>
              /\ arrays' = arrays /\ runners' = runners
              /\ Len(invs') = Len(invs)
              /\ \A m \in Invocations : m # active => invs'[m] = invs[m]
        /\ \A n \in 1..Len(invs') :
              LET v == invs'[n]
                  k == v.switchAt
                  ret == IndexOf(v.log, Event("return", k))
              IN
              /\ v.pc = "sync" <=> active' = n
              /\ v.ret = "none" <=> v.pc = "sync"
              /\ v.ret = "handle" <=> k # -1
              /\ \A j \in 0..(Len(v.seen) - 1) :
                    ReturnsDeferred(PassAt(n, j)) => (k # -1 /\ k <= j)
              /\ k # -1 =>
                    /\ ReturnsDeferred(PassAt(n, k))
                    /\ \A j \in 0..(k - 1) : ~ReturnsDeferred(PassAt(n, j))
                    /\ ret = 2 * k + 2
                    /\ SubSeq(v.log, 1, ret) =
                          Alternating(k)
                              \o <<Event("call", k), Event("return", k)>>
                    /\ \A q \in 1..Len(v.log) :
                          v.log[q].e \in {"call", "merge", "settle"}
                              /\ v.log[q].i > k => q > ret
                    /\ \A q \in 1..Len(v.log) :
                          v.log[q].e \in {"merge", "settle"}
                              /\ v.log[q].i = k => q > ret
      ]_vars

\* A call that returned its handle at pass 1, the first deferred one, and
\* resolved in later steps, beside a second runner call still under way.
SuspensionPointWitness ==
    /\ Len(invs) = 2
    /\ invs[1].switchAt = 1
    /\ invs[1].pc = "fulfilled"
    /\ NumPasses(1) = 2
    /\ invs[2].pc \in {"await", "chain", "chainAwait"}
    /\ invs[1].log =
         << Event("call", 0), Event("merge", 0), Event("call", 1),
            Event("return", 1), Event("settle", 1), Event("merge", 1) >>

\* C15 (monotonic growth): in every step of an invocation that has not
\* failed the environment keeps its keys; the step that merges a result
\* leaves it with the keys it had and the keys of the result, each key of
\* the result with the value of the result, each other key with the value
\* it had; a step that merges nothing leaves it as it was.
MonotonicGrowth ==
    [][ \A n \in Invocations :
            ~Failed(n)' =>
                LET log == invs'[n].log
                    e == CurrentEnv(n)
                    e2 == CurrentEnv(n)'
                IN
                /\ DOMAIN e \subseteq DOMAIN e2
                /\ IF /\ Merged(n)' = Merged(n) + 1
                      /\ log[Len(log)].e = "merge"
                   THEN LET i == log[Len(log)].i
                            r == ResultMapping(PassAt(n, i),
                                               invs'[n].seen[i + 1])
                        IN
                        /\ DOMAIN e2 = DOMAIN e \cup DOMAIN r
                        /\ \A k \in DOMAIN r : e2[k] = r[k]
                        /\ \A k \in DOMAIN e \ DOMAIN r : e2[k] = e[k]
                   ELSE e2 = e
      ]_vars

\* A run on an input with key a: the first pass added key b, the deferred
\* second pass overwrote a, the third gave nothing.
MonotonicGrowthWitness ==
    \E n \in Invocations :
        /\ invs[n].pc = "fulfilled"
        /\ invs[n].input = Obj([k \in {"a"} |-> 0])
        /\ NumPasses(n) = 3
        /\ PassAt(n, 0).body = "copy" /\ PassAt(n, 0).ret = "imm"
        /\ PassAt(n, 1).body = "setA" /\ PassAt(n, 1).ret = "def"
        /\ PassAt(n, 2).body = "void"
        /\ invs[n].seen =
             << ("a" :> 0), ("a" :> 0) @@ ("b" :> 0), ("a" :> 1) @@ ("b" :> 0) >>
        /\ invs[n].result = ("a" :> 1) @@ ("b" :> 0)

\* What pass j of invocation n returned when it was invoked.
Given(n, j) == UserCall(PassAt(n, j), invs[n].seen[j + 1]).val

\* The rule of the specification: a non-null object or a callable, with a
\* callable `then`.
DeferredByRule(val) == val.type \in {"object", "function"} /\ val.then

\* The environment of invocation n after the merge of pass j.
EnvAfter(n, j) ==
    IF Invoked(n) > j + 1 THEN invs[n].seen[j + 2] ELSE CurrentEnv(n)

\* C16 (deferred classification): an invoked pass whose result is an object
\* or a callable with a callable `then` puts the invocation in deferred
\* mode at the latest there, and what is merged for it is what the value
\* resolves with, never its own fields (nothing while it does not
\* resolve); every other result does not switch the mode, and its own
\* fields are merged, in synchronous mode as the next event after the call.
DeferredClassification ==
    \A n \in Invocations :
        \A j \in 0..(Invoked(n) - 1) :
            LET v == invs[n]
                val == Given(n, j)
                c == IndexOf(v.log, Event("call", j))
            IN
            IF DeferredByRule(val)
            THEN /\ v.ret = "handle"
                 /\ v.switchAt \in 0..j
                 /\ val.settle = "never" => Merged(n) <= j /\ ~Completed(n)
                 /\ (Merged(n) > j /\ ~Failed(n)) =>
                       EnvAfter(n, j) =
                           Overlaid(v.seen[j + 1],
                                    IF val.rtype = "object" THEN val.rfields
                                    ELSE EmptyMap)
            ELSE /\ v.switchAt # j
                 /\ ((v.switchAt = -1 \/ v.switchAt > j) /\ v.pc # "threw") =>
                       /\ Merged(n) > j
                       /\ v.log[c + 1] = Event("merge", j)
                 /\ (Merged(n) > j /\ ~Failed(n)) =>
                       EnvAfter(n, j) =
                           Overlaid(v.seen[j + 1],
                                    IF val.type = "object" THEN val.fields
                                    ELSE EmptyMap)

\* A mapping whose `then` is a number was merged as it is; the mapping of
\* the next pass, whose `then` is callable, made the call return a handle
\* and was not merged.
DeferredClassificationWitness ==
    \E n \in Invocations :
        /\ NumPasses(n) = 3
        /\ PassAt(n, 0).body = "thenNum"
        /\ PassAt(n, 1).body = "thenField"
        /\ invs[n].switchAt = 1
        /\ invs[n].ret = "handle"
        /\ invs[n].pc = "await"
        /\ invs[n].seen = << EmptyMap, ("then" :> 1) >>
        /\ heap[invs[n].cell] = ("then" :> 1)

\* Invocation n waits for a deferred value that never resolves or rejects.
AwaitsForever(n) ==
    /\ invs[n].pc \in {"await", "chainAwait"}
    /\ invs[n].out.then
    /\ invs[n].out.settle = "never"

\* C17 (completion): a runner call that was made comes to its end, the
\* environment or the failure returned from the call or the handle
\* resolved or rejected, unless it waits for a deferred value that never
\* settles.
Completion ==
    \A n \in 1..MaxInv :
        (n \in Invocations) ~>
            (n \in Invocations
                /\ (Completed(n) \/ Failed(n) \/ AwaitsForever(n)))

\* A handle that resolved after the switch at pass 0 and a pass run in the
\* chain.
CompletionWitness ==
    \E n \in Invocations :
        /\ invs[n].pc = "fulfilled"
        /\ invs[n].switchAt = 0
        /\ NumPasses(n) = 2
        /\ Merged(n) = 2

\* C18 (builder handles alias one sequence): the references chained from
\* one pipeline() call denote one builder and references from different
\* pipeline() calls denote different ones; a registration through any
\* reference appends the pass to the sequence every reference of the same
\* pipeline() call denotes, the one it returns included, and leaves the
\* sequences of the other pipeline() calls as they were; a build through a
\* reference captures the sequence that reference denotes at that moment.
HandlesAlias ==
    [][ LET H == 1..Len(handles)
            H2 == 1..Len(handles')
            seq2(h) == arrays'[handles'[h].builder]
        IN
        /\ \A h \in H : h \in H2 /\ handles'[h] = handles[h]
        /\ \A g, h \in H2 :
              (handles'[g].root = handles'[h].root)
                  <=> (handles'[g].builder = handles'[h].builder)
        /\ \A h \in H :
              \/ seq2(h) = SeqOf(h)
              \/ /\ \E fn \in BuilderPasses : seq2(h) = Append(SeqOf(h), fn)
                 /\ \A g \in H :
                       IF handles[g].root = handles[h].root
                       THEN seq2(g) = seq2(h)
                       ELSE seq2(g) = SeqOf(g)
                 /\ \A g \in H2 \ H :
                       /\ handles'[g].root = handles[h].root
                       /\ seq2(g) = seq2(h)
        /\ \A g \in H2 \ H :
              \/ handles'[g].root \in Roots
              \/ seq2(g) = <<>>
        /\ Len(runners') > Len(runners) =>
              \E h \in H :
                  /\ arrays'[runners'[Len(runners')]] = SeqOf(h)
                  /\ \A g \in H : handles[g].root = handles[h].root =>
                         arrays'[runners'[Len(runners')]] = seq2(g)
      ]_vars

\* Two pipeline() calls; the first builder got a pass through its first
\* reference and another through the reference that call returned, and a
\* runner built through the first reference has both; the second builder
\* has none.
HandlesAliasWitness ==
    /\ Len(handles) = 4
    /\ handles[2].root = 2
    /\ handles[3].root = 1 /\ handles[4].root = 1
    /\ Len(SeqOf(1)) = 2
    /\ SeqOf(1)[1] # SeqOf(1)[2]
    /\ SeqOf(2) = <<>>
    /\ Len(runners) = 1
    /\ arrays[runners[1]] = SeqOf(3)

\* C19 (input left untouched, result fresh): no step changes the input a
\* call was made with; the environment of a call is at every step an
\* object of the runner's own, never the caller's object, so neither a
\* merge nor the environment handed back is the input object; a call on no
\* passes hands back an equal copy; and a call starts from the fields of
\* its input, whatever an earlier call on the same input has merged.
InputUntouched ==
    [][ \A n \in 1..Len(invs') :
            LET v == invs'[n] IN
            /\ n \in Invocations => v.input = invs[n].input
            /\ v.envObj \in {"copy", "merged"}
            /\ v.envObj = "copy" <=> Merged(n)' = 0
            /\ n \notin Invocations =>
                  heap'[v.cell] = InputMapping(v.input)
            /\ Len(v.seen) >= 1 => v.seen[1] = InputMapping(v.input)
            /\ (v.pc \in {"returned", "fulfilled"}
                    /\ Len(arrays'[runners'[v.runner]]) = 0) =>
                  /\ v.result = InputMapping(v.input)
                  /\ v.envObj = "copy"
      ]_vars

\* Two calls of one runner on the same input with key a: the first ended
\* with a overwritten, and the second started from the input as it was
\* and ended in the same environment.
InputUntouchedWitness ==
    /\ Len(invs) = 2
    /\ invs[1].runner = invs[2].runner
    /\ invs[1].input = Obj([k \in {"a"} |-> 0])
    /\ invs[2].input = invs[1].input
    /\ NumPasses(1) = 2
    /\ PassAt(1, 0).body = "setA" /\ PassAt(1, 1).body = "copy"
    /\ Completed(1) /\ Completed(2)
    /\ invs[2].seen[1] = [k \in {"a"} |-> 0]
    /\ invs[1].result = [k \in {"a", "b"} |-> 1]
    /\ invs[2].result = invs[1].result
====
